---- MODULE Spec2Model ----
(***************************************************************************)
(* A model of hashstructure: Hash(v, opts) walks an arbitrary value and    *)
(* feeds a canonical byte stream into a 64-bit hash accumulator (CRC-64    *)
(* ECMA by default).                                                       *)
(*                                                                         *)
(* Values are records tagged with their reflect.Kind.  A 64-bit word is    *)
(* the tuple of its 8 bytes, least significant first, which is also the    *)
(* byte string binary.Write(LittleEndian) produces for it.                 *)
(***************************************************************************)
EXTENDS Integers, Sequences, FiniteSets, TLC

VARIABLES
    rel,    \* how the two inputs a and b are related (fixed by Init)
    a,      \* first input value
    b,      \* second input value
    opts,   \* the caller's *HashOptions argument: NilOpts or [Hasher, TagName]
    heap,   \* the hash.Hash64 objects the caller can reach: id -> CRC register
    last,   \* outcome of the most recent call ("none" before the first)
    res     \* res.a, res.b: what the latest Hash call on a, on b returned

vars == <<rel, a, b, opts, heap, last, res>>

-----------------------------------------------------------------------------
(* Bounds of the input universe *)

\* longest array, slice or map drawn as an input
MaxLen == 2
\* deepest stack of pointer/interface wrappers drawn around an input
MaxWrap == 2

-----------------------------------------------------------------------------
(* 64-bit words and CRC-64 (hash/crc64 with the ECMA table) *)

RECURSIVE XorInt(_, _)
XorInt(p, q) ==
    IF p = 0 THEN q
    ELSE IF q = 0 THEN p
    ELSE ((p + q) % 2) + 2 * XorInt(p \div 2, q \div 2)

XorTab == [p \in 0..255 |-> [q \in 0..255 |-> XorInt(p, q)]]

Xor8(p, q) == XorTab[p][q]

Zero64 == <<0, 0, 0, 0, 0, 0, 0, 0>>

\* h ^ kh on uint64
Xor64(p, q) == [i \in 1..8 |-> Xor8(p[i], q[i])]

Not64(p) == [i \in 1..8 |-> 255 - p[i]]

Shr1(p) == [i \in 1..8 |-> (p[i] \div 2) + (IF i < 8 THEN (p[i + 1] % 2) * 128 ELSE 0)]

Shr8(p) == [i \in 1..8 |-> IF i < 8 THEN p[i + 1] ELSE 0]

\* crc64.ECMA = 0xC96C5795D7870F42
ECMA == <<66, 15, 135, 215, 149, 87, 108, 201>>

RECURSIVE TableEntry(_, _)
TableEntry(crc, n) ==
    IF n = 0 THEN crc
    ELSE TableEntry(IF crc[1] % 2 = 1 THEN Xor64(Shr1(crc), ECMA) ELSE Shr1(crc), n - 1)

\* crc64.MakeTable(crc64.ECMA)
MakeTable == [i \in 0..255 |-> TableEntry(<<i, 0, 0, 0, 0, 0, 0, 0>>, 8)]

RECURSIVE CrcLoop(_, _, _)
CrcLoop(crc, p, i) ==
    IF i > Len(p) THEN crc
    ELSE CrcLoop(Xor64(MakeTable[Xor8(crc[1], p[i])], Shr8(crc)), p, i + 1)

\* digest.Write: d.crc = update(d.crc, d.tab, p)
CrcUpdate(crc, p) == Not64(CrcLoop(Not64(crc), p, 1))

-----------------------------------------------------------------------------
(* binary.Write(w, binary.LittleEndian, x) for the sized integers *)

IntKinds == {"int8", "int16", "int32", "int64", "uint8", "uint16", "uint32", "uint64"}

SizeOf(k) ==
    CASE k \in {"int8", "uint8"} -> 1
      [] k \in {"int16", "uint16"} -> 2
      [] k \in {"int32", "uint32"} -> 4
      [] k \in {"int64", "uint64"} -> 8

RECURSIVE LittleEndian(_, _)
LittleEndian(n, size) ==
    IF size = 0 THEN <<>>
    ELSE <<n % 256>> \o LittleEndian(n \div 256, size - 1)

-----------------------------------------------------------------------------
(* Values, as reflect sees them *)

Num(k, n) == [kind |-> k, n |-> n]
Str(s) == [kind |-> "string", s |-> s]
Arr(es) == [kind |-> "array", elems |-> es]
Slice(es) == [kind |-> "slice", elems |-> es]
\* entries in the order v.MapKeys() returns the keys
Map(es) == [kind |-> "map", entries |-> es]
Ptr(e) == [kind |-> "ptr", elem |-> e]
Iface(e) == [kind |-> "interface", elem |-> e]
\* the zero reflect.Value: what Elem() of a nil pointer or nil interface gives
Invalid == [kind |-> "invalid"]
\* a kind visit has no case for
Func == [kind |-> "func"]

NoTag == [key |-> "", val |-> ""]
Tag(k, v) == [key |-> k, val |-> v]
\* reflect.StructField: PkgPath is empty exactly for an exported field
Field(name, pkgPath, tag, v) == [name |-> name, pkgPath |-> pkgPath, tag |-> tag, val |-> v]

\* A hook implementation: recv says whether the method is declared on T
\* ("value"), on *T ("pointer") or not at all ("none"); the hook answers
\* an error for the names in err and false for the names in no.
NoHook == [recv |-> "none", no |-> {}, err |-> {}]
Hook(recv, no, err) == [recv |-> recv, no |-> no, err |-> err]

Struct(fs, inc, incMap) ==
    [kind |-> "struct", fields |-> fs, include |-> inc, includeMap |-> incMap]
PlainStruct(fs) == Struct(fs, NoHook, NoHook)

\* StructTag.Get(key)
TagGet(f, key) == IF f.tag.key = key THEN f.tag.val ELSE ""

\* flags of a reflect.Value: addressable, and obtained through an
\* unexported field (read-only: Interface() panics on it)
TopFlags == [addr |-> FALSE, ro |-> FALSE]
ElemFlags(fl, k) ==
    CASE k = "ptr" -> [addr |-> TRUE, ro |-> fl.ro]
      [] k = "interface" -> [addr |-> FALSE, ro |-> fl.ro]
      [] k = "slice" -> [addr |-> TRUE, ro |-> fl.ro]
      [] k = "array" -> fl
      [] k = "map" -> [addr |-> FALSE, ro |-> fl.ro]
FieldFlags(fl, f) == [addr |-> fl.addr, ro |-> fl.ro \/ f.pkgPath # ""]
CanSet(fl) == fl.addr /\ ~fl.ro

-----------------------------------------------------------------------------
(* hash.Hash64 objects live in st.heap; id 0 is the nil Hasher *)

HasherNew(st) ==
    [st EXCEPT !.heap = Append(@, Zero64), !.resets = Append(@, 0)]

\* a Reset that forgets to clear the register
HasherResetKeepsSum(st, h) == [st EXCEPT !.resets[h] = @ + 1]

HasherReset(st, h) ==
    [st EXCEPT !.heap[h] = Zero64, !.resets[h] = @ + 1]

HasherWrite(st, h, p) == [st EXCEPT !.heap[h] = CrcUpdate(@, p)]

Sum64(st, h) == st.heap[h]

Fail(st, e) == [st EXCEPT !.err = e]

-----------------------------------------------------------------------------
(* visitFlag *)

visitFlagSet == 2

\* opts.Flags & visitFlagSet
FlagAnd(f, g) == IF (f \div g) % 2 = 1 THEN g ELSE 0

NilOpts == [nil |-> TRUE]
NilVisitOpts == [nil |-> TRUE]

\* the options the walker hands to the sub-hash of a map key, a map value
\* or an element of a set: Hash(x, nil)
SubHashOpts(w) == NilOpts

\* Hash: the options after defaulting
DefaultHasher(o, st) == IF o.Hasher = 0 THEN Len(st.heap) + 1 ELSE o.Hasher
DefaultTagName(o) == IF o.TagName = "" THEN "hash" ELSE o.TagName

\* line 198 without its second disjunct
FieldVisitedIfSettable(fl, f) == CanSet(FieldFlags(fl, f))

\* line 198: which fields of a struct are looked at
FieldVisited(fl, f) == CanSet(FieldFlags(fl, f)) \/ f.name # "_"

\* a running total that shifts before it folds the next entry in
MapFoldShifted(h, kh, vh) == Xor64(Shr1(h), Xor64(kh, vh))

\* line 183: the running total of a map
MapFold(h, kh, vh) == Xor64(Xor64(h, kh), vh)

\* line 115: what a nil reference is hashed as
NilAs == Num("int8", 0)

-----------------------------------------------------------------------------
(* walker.visit and Hash.  st = [heap, resets, err, calls] is threaded     *)
(* through the walk: the hasher objects, how often each was Reset, the     *)
(* error being returned ("nil" for none) and the hook calls made so far.   *)

Normalize(v) ==
    CASE v.kind = "int" -> Num("int64", v.n)
      [] v.kind = "uint" -> Num("uint64", v.n)
      [] v.kind = "bool" -> Num("int8", IF v.n # 0 THEN 1 ELSE 0)
      [] OTHER -> v

IsSet(vo) == vo # NilVisitOpts /\ FlagAnd(vo.Flags, visitFlagSet) # 0

\* the IncludableMap of the struct owning a map field, when it has one
IncludeMapOf(vo) ==
    IF vo # NilVisitOpts /\ vo.Struct.includeMap.recv = "value"
    THEN vo.Struct.includeMap
    ELSE NoHook

\* parent.(Includable): parent is the struct value itself
IncludeOf(sv) == IF sv.include.recv = "value" THEN sv.include ELSE NoHook

Called(st, c) == [st EXCEPT !.calls = Append(@, c)]

RECURSIVE visit(_, _, _, _, _)
RECURSIVE Hash(_, _, _)
RECURSIVE VisitElems(_, _, _, _, _)
RECURSIVE VisitFields(_, _, _, _, _)
RECURSIVE MapLoop(_, _, _, _, _, _, _)
RECURSIVE SetLoop(_, _, _, _, _, _)

\* lines 142-148 and 251: the elements in index order, into the same writer
VisitElems(es, i, fl, w, st) ==
    IF i > Len(es) THEN st
    ELSE LET s1 == visit(es[i], fl, NilVisitOpts, w, st)
         IN  IF s1.err # "nil" THEN s1 ELSE VisitElems(es, i + 1, fl, w, s1)

\* lines 160-184
MapLoop(es, i, fl, vo, h, w, st) ==
    IF i > Len(es) THEN [h |-> h, st |-> st]
    ELSE
      LET k == es[i][1]
          x == es[i][2]
          inc == IncludeMapOf(vo)
          st1 == IF inc.recv = "none" THEN st
                 ELSE Called(st, <<"HashIncludeMap", vo.StructField, k>>)
      IN  IF fl.ro THEN [h |-> h, st |-> Fail(st, "panic")]
          ELSE IF inc.recv # "none" /\ k \in inc.err
            THEN [h |-> h, st |-> Fail(st1, "hook error")]
          ELSE IF inc.recv # "none" /\ k \in inc.no
            THEN MapLoop(es, i + 1, fl, vo, h, w, st1)
          ELSE
            LET kr == Hash(k, SubHashOpts(w), st1)
            IN  IF kr.err # "nil" THEN [h |-> h, st |-> kr.st]
                ELSE
                  LET vr == Hash(x, SubHashOpts(w), kr.st)
                  IN  IF vr.err # "nil" THEN [h |-> h, st |-> vr.st]
                      ELSE MapLoop(es, i + 1, fl, vo,
                                   MapFold(h, kr.digest, vr.digest), w, vr.st)

\* lines 244-256, set branch
SetLoop(es, i, fl, h, w, st) ==
    IF i > Len(es) THEN [h |-> h, st |-> st]
    ELSE IF fl.ro THEN [h |-> h, st |-> Fail(st, "panic")]
    ELSE
      LET r == Hash(es[i], SubHashOpts(w), st)
      IN  IF r.err # "nil" THEN [h |-> Xor64(h, r.digest), st |-> r.st]
          ELSE SetLoop(es, i + 1, fl, Xor64(h, r.digest), w, r.st)

\* lines 195-232
VisitFields(sv, i, fl, w, st) ==
    IF i > Len(sv.fields) THEN st
    ELSE
      LET f == sv.fields[i]
          tag == TagGet(f, w.tag)
          inc == IncludeOf(sv)
          st1 == IF inc.recv = "none" THEN st
                 ELSE Called(st, <<"HashInclude", f.name>>)
      IN  IF ~FieldVisited(fl, f) THEN VisitFields(sv, i + 1, fl, w, st)
          ELSE IF tag = "ignore" THEN VisitFields(sv, i + 1, fl, w, st)
          ELSE IF inc.recv # "none" /\ f.name \in inc.err
            THEN Fail(st1, "hook error")
          ELSE IF inc.recv # "none" /\ f.name \in inc.no
            THEN VisitFields(sv, i + 1, fl, w, st1)
          ELSE
            LET s2 == visit(f.val, FieldFlags(fl, f),
                            [Flags |-> IF tag = "set" THEN visitFlagSet ELSE 0,
                             Struct |-> sv, StructField |-> f.name], w, st1)
            IN  IF s2.err # "nil" THEN s2 ELSE VisitFields(sv, i + 1, fl, w, s2)

\* lines 93-271
visit(v, fl, vo, w, st) ==
    IF v.kind \in {"interface", "ptr"}
    THEN visit(v.elem, ElemFlags(fl, v.kind), vo, w, st)
    ELSE
      LET v1 == IF v.kind = "invalid" THEN NilAs ELSE v
          v2 == Normalize(v1)
          fl2 == IF v.kind = "invalid" \/ v2 # v1 THEN TopFlags ELSE fl
          k == v2.kind
      IN  CASE k \in IntKinds ->
                 IF fl2.ro THEN Fail(st, "panic")
                 ELSE HasherWrite(st, w.w, LittleEndian(v2.n, SizeOf(k)))
            [] k = "array" ->
                 VisitElems(v2.elems, 1, ElemFlags(fl2, "array"), w, st)
            [] k = "map" ->
                 LET r == MapLoop(v2.entries, 1, ElemFlags(fl2, "map"), vo, Zero64, w, st)
                 IN  IF r.st.err # "nil" THEN r.st ELSE HasherWrite(r.st, w.w, r.h)
            [] k = "struct" ->
                 IF fl2.ro THEN Fail(st, "panic")
                 ELSE VisitFields(v2, 1, fl2, w, st)
            [] k = "slice" ->
                 IF IsSet(vo)
                 THEN LET r == SetLoop(v2.elems, 1, ElemFlags(fl2, "slice"), Zero64, w, st)
                      IN  IF r.st.err # "nil" THEN r.st ELSE HasherWrite(r.st, w.w, r.h)
                 ELSE VisitElems(v2.elems, 1, ElemFlags(fl2, "slice"), w, st)
            [] k = "string" -> HasherWrite(st, w.w, v2.s)
            [] OTHER -> Fail(st, "unknown kind")

\* lines 52-77.  The result carries the options object as the call left it.
Hash(v, o, st) ==
    LET o1 == IF o = NilOpts THEN [Hasher |-> 0, TagName |-> ""] ELSE o
        st1 == IF o1.Hasher = 0 THEN HasherNew(st) ELSE st
        o2 == [Hasher |-> DefaultHasher(o1, st), TagName |-> DefaultTagName(o1)]
        st2 == HasherReset(st1, o2.Hasher)
        w == [w |-> o2.Hasher, tag |-> o2.TagName]
        st3 == visit(v, TopFlags, NilVisitOpts, w, st2)
    IN  [digest |-> IF st3.err # "nil" THEN Zero64 ELSE Sum64(st3, o2.Hasher),
         err |-> st3.err,
         opts |-> IF o = NilOpts THEN NilOpts ELSE o2,
         st |-> st3]


-----------------------------------------------------------------------------
(* The inputs.  Init draws a pair of values (a, b) related in one of the   *)
(* ways the properties of the library speak of, and the caller's options.  *)

SA == Str(<<97>>)
SAA == Str(<<97, 97>>)
SB == Str(<<98>>)
SX == Str(<<120>>)
KA == Str(<<65>>)
KB == Str(<<66>>)
U1 == Str(<<117, 49>>)
U2 == Str(<<117, 50>>)
I(n) == Num("int", n)

\* the rearrangements of a sequence that change it
Bijections(n) == {p \in [1..n -> 1..n] : \A i, j \in 1..n : p[i] = p[j] => i = j}
Rearranged(s) == {[i \in 1..Len(s) |-> s[p[i]]] : p \in Bijections(Len(s))} \ {s}
SeqsOfLen(S, lo, hi) == UNION {[1..n -> S] : n \in lo..hi}
Injective(ks) == \A i, j \in 1..Len(ks) : ks[i] = ks[j] => i = j
Zip(ks, xs) == [i \in 1..Len(ks) |-> <<ks[i], xs[i]>>]

\* v inside a stack of pointers and interfaces, innermost first
RECURSIVE WrapWith(_, _)
WrapWith(v, ws) ==
    IF ws = <<>> THEN v
    ELSE WrapWith(IF Head(ws) = "ptr" THEN Ptr(v) ELSE Iface(v), Tail(ws))
Wrappers == SeqsOfLen({"ptr", "interface"}, 1, MaxWrap)

\* rel.key is the tag key the pair is about ("*" when it reads no tag)
AnyKey == "*"
Pair(name, key, x, y) == [rel |-> [name |-> name, key |-> key], a |-> x, b |-> y]

\* --- "hidden": two structs that differ in an unexported field only
HiddenChanges ==
    {<<SA, SB>>, <<I(1), I(2)>>, <<Num("bool", 0), Num("bool", 1)>>,
     <<Num("int8", 1), Num("int8", 2)>>, <<Slice(<<SA>>), Slice(<<SB>>)>>}
HiddenStruct(name, u) ==
    PlainStruct(<<Field("Foo", "", NoTag, SX), Field(name, "main", NoTag, u)>>)
HiddenPairs ==
    {Pair("hidden", AnyKey,
          IF byPtr THEN Ptr(HiddenStruct(n, c[1])) ELSE HiddenStruct(n, c[1]),
          IF byPtr THEN Ptr(HiddenStruct(n, c[2])) ELSE HiddenStruct(n, c[2])) :
        n \in {"bar", "_"}, c \in HiddenChanges, byPtr \in BOOLEAN}

\* --- "perm": a map, or a slice in a field tagged "set", in two orders
PermKeys == {KA, KB, I(1)}
PermVals == {I(1), Func}
EntriesOfLen(n) ==
    {Zip(ks, xs) : ks \in {k \in [1..n -> PermKeys] : Injective(k)},
                   xs \in [1..n -> PermVals]}
PermEntries == UNION {EntriesOfLen(n) : n \in 2..MaxLen}
SetStruct(key, s) ==
    PlainStruct(<<Field("N", "", NoTag, I(1)), Field("S", "", Tag(key, "set"), s)>>)
PermElems == {I(1), SA, Func}
\* the places a struct can occur in a hashed value
Places == {"top", "field", "array", "slice", "mapkey", "mapvalue", "set"}
Placed(place, key, v) ==
    CASE place = "top" -> v
      [] place = "field" -> PlainStruct(<<Field("In", "", NoTag, v)>>)
      [] place = "array" -> Arr(<<v>>)
      [] place = "slice" -> Slice(<<v>>)
      [] place = "mapkey" -> Map(<<<<v, I(1)>>>>)
      [] place = "mapvalue" -> Map(<<<<KA, v>>>>)
      [] place = "set" -> SetStruct(key, Slice(<<v>>))
MapOwner(m, hook) == Struct(<<Field("M", "", NoTag, m)>>, NoHook, hook)
PermPairs ==
    UNION {{Pair("perm", AnyKey, Map(es), Map(fs)) : fs \in Rearranged(es)} :
             es \in PermEntries}
    \cup
    UNION {{Pair("perm", AnyKey, MapOwner(Map(es), hook), MapOwner(Map(fs), hook)) :
               fs \in Rearranged(es),
               hook \in {Hook("value", {KB}, {}), Hook("value", {}, {KB})}} :
             es \in EntriesOfLen(2)}
    \cup
    UNION {{Pair("perm", key, SetStruct(key, Slice(es)), SetStruct(key, Slice(fs))) :
               fs \in Rearranged(es), key \in {"hash", "custom"}} :
             es \in SeqsOfLen(PermElems, 2, MaxLen)}
    \cup
    UNION {{Pair("perm", key, Placed(pl, key, SetStruct(key, Slice(es))),
                            Placed(pl, key, SetStruct(key, Slice(fs)))) :
               fs \in Rearranged(es), key \in {"hash", "custom"},
               pl \in {"field", "array"}} :
             es \in SeqsOfLen(PermElems, 2, 2)}
    \cup
    UNION {{Pair("perm", AnyKey,
                 Map(<<<<KA, SetStruct("hash", Slice(es))>>>>),
                 Map(<<<<KA, SetStruct("hash", Slice(fs))>>>>)) : fs \in Rearranged(es)} :
             es \in SeqsOfLen(PermElems, 2, 2)}

\* --- "ignore": two values that differ in a field tagged "ignore" only
Ignoring(key, hook, u) ==
    Struct(<<Field("Name", "", NoTag, SX), Field("UUID", "", Tag(key, "ignore"), u)>>,
           hook, NoHook)
IgnorePairs ==
    {Pair("ignore", key, Placed(pl, key, Ignoring(key, hook, U1)),
                         Placed(pl, key, Ignoring(key, hook, U2))) :
        key \in {"hash", "custom"}, pl \in Places,
        hook \in {NoHook, Hook("value", {}, {"UUID"})}}

\* --- "nilzero": a nil reference and the zero value of the kind it refers to
ZeroValues ==
    {Num(k, 0) : k \in IntKinds \cup {"int", "uint", "bool"}}
    \cup {Str(<<>>), PlainStruct(<<>>), Slice(<<>>), Map(<<>>),
          PlainStruct(<<Field("A", "", NoTag, I(0))>>)}
    \cup {Arr([i \in 1..n |-> I(0)]) : n \in 0..MaxLen}
NilRefs == {Invalid, Ptr(Invalid), Iface(Invalid), Ptr(Ptr(Invalid))}
NilZeroPairs == {Pair("nilzero", AnyKey, n, z) : n \in NilRefs, z \in ZeroValues}

\* --- "wrap": a value, and the same value behind pointers and interfaces
Mixed ==
    Struct(<<Field("Name", "", NoTag, SX),
             Field("_", "main", NoTag, SA),
             Field("bar", "main", NoTag, SB),
             Field("UUID", "", Tag("hash", "ignore"), U1),
             Field("Skip", "", NoTag, I(2))>>,
           Hook("value", {"Skip"}, {}), NoHook)
WrapBase ==
    {I(1), Num("int8", 1), Num("bool", 1), SA, Func, Invalid,
     Arr(<<I(1), SA>>), Slice(<<SA, SB>>), Map(<<<<KA, I(1)>>, <<KB, I(2)>>>>),
     PlainStruct(<<Field("Foo", "", NoTag, SX)>>),
     HiddenStruct("bar", SA), HiddenStruct("_", SA), HiddenStruct("bar", Num("int8", 1)),
     Mixed,
     Struct(<<Field("Foo", "", NoTag, SX)>>, Hook("pointer", {"Foo"}, {}), NoHook),
     Struct(<<Field("Foo", "", NoTag, SX)>>, Hook("value", {}, {"Foo"}), NoHook),
     MapOwner(Map(<<<<KA, I(1)>>, <<KB, I(2)>>>>), Hook("value", {KB}, {})),
     MapOwner(Map(<<<<KA, I(1)>>, <<KB, I(2)>>>>), Hook("pointer", {KB}, {})),
     PlainStruct(<<Field("In", "", NoTag, Mixed)>>),
     SetStruct("hash", Slice(<<SA, SB>>))}
WrapPairs ==
    {Pair("wrap", AnyKey, v, WrapWith(v, ws)) : v \in WrapBase, ws \in Wrappers}
    \cup
    {Pair("wrap", key, SetStruct(key, Slice(es)), SetStruct(key, WrapWith(Slice(es), ws))) :
        key \in {"hash", "custom"}, es \in {<<SA, SB>>, <<I(1), Mixed>>}, ws \in Wrappers}
    \cup
    {Pair("wrap", AnyKey, Placed(pl, "hash", v), Placed(pl, "hash", WrapWith(v, ws))) :
        pl \in {"field", "array", "mapvalue"}, v \in {Mixed, HiddenStruct("bar", SA)},
        ws \in Wrappers}

\* --- "addzero": a struct, and the struct with one more exported field
\* that holds the zero value of its type
AddZeroBase ==
    {PlainStruct(<<>>), PlainStruct(<<Field("Foo", "", NoTag, SX)>>),
     PlainStruct(<<Field("Foo", "", NoTag, I(1))>>)}
AddZeroPairs ==
    {Pair("addzero", AnyKey, s,
          [s EXCEPT !.fields = Append(@, Field("Zero", "", NoTag, z))]) :
        s \in AddZeroBase, z \in ZeroValues \cup {Ptr(Invalid)}}

\* --- "reorder": an array or a plain slice, and its elements in another order
ReorderElems == {I(1), I(2), I(3), SA, SAA, SB}
ReorderPairs ==
    UNION {{Pair("reorder", AnyKey,
                 IF arr THEN Arr(es) ELSE Slice(es),
                 IF arr THEN Arr(fs) ELSE Slice(fs)) :
               fs \in Rearranged(es), arr \in BOOLEAN} :
             es \in SeqsOfLen(ReorderElems, 2, MaxLen)}

\* --- "swap": two maps with the same keys and the values exchanged
SwapPairs ==
    {Pair("swap", AnyKey, Map(<<<<k[1], x[1]>>, <<k[2], x[2]>>>>),
                          Map(<<<<k[1], x[2]>>, <<k[2], x[1]>>>>)) :
        k \in {<<KA, KB>>, <<KA, I(1)>>, <<I(1), I(2)>>},
        x \in {<<I(1), I(2)>>, <<SA, SB>>, <<I(1), SA>>}}

\* --- "any": two unrelated values
AnyValues ==
    {I(1), SA, Func, Arr(<<SA, Func>>), Slice(<<SA, SB>>),
     Map(<<<<KA, I(1)>>, <<KB, Func>>>>), Map(<<<<KA, I(1)>>>>), Mixed,
     Struct(<<Field("Foo", "", NoTag, SX), Field("Bar", "", NoTag, SA)>>,
            Hook("value", {}, {"Bar"}), NoHook),
     SetStruct("hash", Slice(<<SA, Func>>))}
AnyPairs == {Pair("any", AnyKey, x, y) : x \in AnyValues, y \in AnyValues}

Inputs ==
    HiddenPairs \cup PermPairs \cup IgnorePairs \cup NilZeroPairs \cup WrapPairs
    \cup AddZeroPairs \cup ReorderPairs \cup SwapPairs \cup AnyPairs

\* the options a caller passes: nil, or an object with each field set or not
Options ==
    {NilOpts} \cup [Hasher : {0, 1}, TagName : {"", "hash", "custom"}]

\* the tag key a call with options o reads
TagNameOf(o) == IF o = NilOpts THEN "hash" ELSE DefaultTagName(o)

\* a caller's accumulator may have been used before
UsedHasher == CrcUpdate(Zero64, <<1>>)

-----------------------------------------------------------------------------
(* The state machine: the caller hashes a and b, in any order and any      *)
(* number of times, passing the same options each time.                    *)

NoResult ==
    [done |-> FALSE, digest |-> Zero64, err |-> "nil", calls |-> <<>>, resets |-> 0,
     optsIn |-> NilOpts, optsOut |-> NilOpts, regIn |-> Zero64, after |-> "none"]

InitWith(pairs, regs) ==
    \E p \in pairs, o \in Options, reg \in regs :
        /\ p.rel.key \in {AnyKey, TagNameOf(o)}
        /\ rel = p.rel
        /\ a = p.a
        /\ b = p.b
        /\ opts = o
        /\ heap = IF o # NilOpts /\ o.Hasher # 0 THEN <<reg>> ELSE <<>>
        /\ (o = NilOpts \/ o.Hasher = 0) => reg = Zero64
        /\ last = "none"
        /\ res = [a |-> NoResult, b |-> NoResult]

Init == InitWith(Inputs, {Zero64, UsedHasher})

\* the Reset count of n hashers at the start of a call
RECURSIVE NoResets(_)
NoResets(n) == IF n = 0 THEN <<>> ELSE Append(NoResets(n - 1), 0)

\* digest, err := Hash(v, opts) where v is input x
HashCall(x) ==
    LET v == IF x = "a" THEN a ELSE b
        r == Hash(v, opts, [heap |-> heap, resets |-> NoResets(Len(heap)),
                            err |-> "nil", calls |-> <<>>])
        \* the accumulator the outer walk wrote to
        h == IF opts = NilOpts \/ opts.Hasher = 0 THEN Len(heap) + 1 ELSE opts.Hasher
        \* what the caller can still reach afterwards
        kept == IF r.opts = NilOpts THEN Len(heap) ELSE r.opts.Hasher
    IN  /\ opts' = r.opts
        /\ heap' = SubSeq(r.st.heap, 1, kept)
        /\ last' = r.err
        /\ res' = [res EXCEPT ![x] =
                     [done |-> TRUE, digest |-> r.digest, err |-> r.err,
                      calls |-> r.st.calls, resets |-> r.st.resets[h],
                      optsIn |-> opts, optsOut |-> r.opts,
                      regIn |-> IF h <= Len(heap) THEN heap[h] ELSE Zero64,
                      after |-> last]]
        /\ UNCHANGED <<rel, a, b>>

HashA == HashCall("a")
HashB == HashCall("b")

Next == HashA \/ HashB

Spec == Init /\ [][Next]_vars

\* the same machine started on one family of inputs (only the last, which
\* is about the accumulator, also starts from one that was used before)
InitHidden == InitWith(HiddenPairs, {Zero64})
SpecHidden == InitHidden /\ [][Next]_vars
InitPerm == InitWith(PermPairs, {Zero64})
SpecPerm == InitPerm /\ [][Next]_vars
InitIgnore == InitWith(IgnorePairs, {Zero64})
SpecIgnore == InitIgnore /\ [][Next]_vars
InitNilZero == InitWith(NilZeroPairs, {Zero64})
SpecNilZero == InitNilZero /\ [][Next]_vars
InitWrap == InitWith(WrapPairs, {Zero64})
SpecWrap == InitWrap /\ [][Next]_vars
InitAddZero == InitWith(AddZeroPairs, {Zero64})
SpecAddZero == InitAddZero /\ [][Next]_vars
InitReorder == InitWith(ReorderPairs, {Zero64})
SpecReorder == InitReorder /\ [][Next]_vars
InitSwap == InitWith(SwapPairs, {Zero64})
SpecSwap == InitSwap /\ [][Next]_vars
InitAny == InitWith(AnyPairs, {Zero64, UsedHasher})
SpecAny == InitAny /\ [][Next]_vars


-----------------------------------------------------------------------------
(* Properties *)

Both == res.a.done /\ res.b.done
BothSucceeded == Both /\ res.a.err = "nil" /\ res.b.err = "nil"
SameDigest == res.a.digest = res.b.digest
Input(x) == IF x = "a" THEN a ELSE b

EmptyState == [heap |-> <<>>, resets |-> <<>>, err |-> "nil", calls |-> <<>>]
\* what Hash returns for v when it is given an accumulator of its own
FreshDigest(v, tagName) ==
    Hash(v, [Hasher |-> 0, TagName |-> tagName], EmptyState).digest

\* C1: two structs that are equal in every exported field and differ only
\* in the content of an unexported field hash to the same digest, passed by
\* value or by pointer.
C1_HiddenMemberInvisible ==
    (rel.name = "hidden" /\ BothSucceeded) => SameDigest

C3_IgnoreAnnotation ==
    (rel.name = "ignore" /\ Both) =>
        /\ SameDigest
        /\ \A x \in {"a", "b"} : \A i \in DOMAIN res[x].calls :
              res[x].calls[i] # <<"HashInclude", "UUID">>

\* C4: a nil pointer or nil interface hashes to the digest of the zero
\* value of the kind it refers to.
C4_AbsentReferenceIsZero ==
    (rel.name = "nilzero" /\ Both) => SameDigest

\* C5: a value behind any number of pointers and interfaces hashes like the
\* value itself: same digest, same error, same hook calls.
C5_IndirectionTransparent ==
    (rel.name = "wrap" /\ Both) =>
        /\ SameDigest
        /\ res.a.err = res.b.err
        /\ res.a.calls = res.b.calls

\* C5 witness: a struct with exported, unexported, ignored and hook-excluded
\* fields was hashed by value and through a pointer.
C5_Witness ==
    /\ rel.name = "wrap"
    /\ BothSucceeded
    /\ a = Mixed
    /\ b.kind = "ptr"
    /\ res.b.calls # <<>>
    /\ res.a.digest = res.b.digest

\* C6: adding an exported, untagged field that holds the zero value of its
\* type changes the digest of a struct.
C6_ZeroMemberChangesDigest ==
    (rel.name = "addzero" /\ BothSucceeded) => ~SameDigest

\* C7: an array or plain slice whose elements have pairwise distinct
\* digests hashes differently from any rearrangement that changes the
\* order of its elements.
C7_OrderSensitive ==
    (/\ rel.name = "reorder"
     /\ BothSucceeded
     /\ \A i, j \in DOMAIN a.elems :
           i # j => FreshDigest(a.elems[i], "hash") # FreshDigest(a.elems[j], "hash"))
    => ~SameDigest

\* C8: a successful call returns the digest it would return with a fresh
\* accumulator, whatever the accumulator in the options held before and
\* however the previous call ended; and the accumulator the outer walk
\* writes to is Reset exactly once in a call, sub-hashes included.
C8_AccumulatorReuse ==
    \A x \in {"a", "b"} :
        res[x].done =>
            /\ res[x].resets = 1
            /\ res[x].err = "nil" =>
                  res[x].digest = FreshDigest(Input(x), TagNameOf(res[x].optsIn))

\* C8 witness: a map was hashed successfully on the caller's accumulator
\* right after a call that failed midway and left bytes in it.
C8_Witness ==
    \E x \in {"a", "b"} :
        /\ res[x].done
        /\ res[x].err = "nil"
        /\ Input(x).kind = "map"
        /\ res[x].optsIn # NilOpts
        /\ res[x].optsIn.Hasher # 0
        /\ res[x].after = "unknown kind"
        /\ res[x].regIn # Zero64

\* C9: two maps with the same keys and the same values assigned the other
\* way round, as {A:1, B:2} and {A:2, B:1}, do not hash alike.
C9_EntryPairing ==
    (rel.name = "swap" /\ BothSucceeded) => ~SameDigest

\* C10: a call with a non-nil options object leaves both of its fields as
\* the caller set them, also when one was left unset.
C10_OptionsUnchanged ==
    \A x \in {"a", "b"} :
        (res[x].done /\ res[x].optsIn # NilOpts) => res[x].optsOut = res[x].optsIn


====
